---- MODULE Spec2Model ----
(***************************************************************************)
(* The backend process manager of the desktop shell                        *)
(* (src/desktop/tauri/src-tauri/src/main.rs).                              *)
(*                                                                         *)
(* BACKEND is a process-wide Mutex<Option<Child>>.  spawn_backend          *)
(* ("ensure_started") starts the worker unless one is tracked;             *)
(* kill_backend ("terminate") signals the tracked worker.  main wires the  *)
(* shell's events to them: setup ("ready") calls spawn_backend and then    *)
(* registers a close-requested listener that calls kill_backend; a         *)
(* destroyed window calls kill_backend.  The shell may deliver events on   *)
(* any of its threads, so handlers of different events may overlap.        *)
(*                                                                         *)
(* Every step of a handler that touches shared state is one action.  The   *)
(* calls the program makes to the operating system (Command::spawn and     *)
(* Child::kill) are recorded, in the order they happen, in trace; the      *)
(* events delivered are recorded, in the order they arrive, in hist.       *)
(***************************************************************************)
EXTENDS Naturals, Sequences, FiniteSets

\* Bounds of the model: threads the shell delivers events on, and events
\* delivered in one run.
NThreads == 2
MaxEvents == 3

Threads == 1..NThreads

\* Option<Child>::None; a Some(child) is the worker's number, 1, 2, ...
None == 0
NoThread == 0

VARIABLES
    BACKEND,    \* the Option<Child> inside the mutex
    lock,       \* the thread holding the MutexGuard, or NoThread
    pc,         \* each thread's position in the handler it runs
    ev,         \* the event each thread is handling
    pending,    \* listener calls the thread still has to make for its event
    child,      \* spawn_backend's local `child`
    listeners,  \* close-requested listeners registered by setup
    proc,       \* the worker processes created so far, by number
    trace,      \* the OS calls made so far: spawns and kills, in order
    hist,       \* the events delivered so far, in order
    overlap,    \* whether an event arrived while another was being handled
    h0,         \* BACKEND when the thread's current call was invoked
    t0,         \* Len(trace) when the thread's current call was invoked
    seen,       \* BACKEND when the thread's current call acquired the lock
    did,        \* the place in trace of the OS call the current call made
    res,        \* what kill() returned to the current call: "ok" or "err"
    poisoned    \* whether the mutex is poisoned (a holder panicked)

vars == <<BACKEND, lock, pc, ev, pending, child, listeners, proc, trace,
          hist, overlap, h0, t0, seen, did, res, poisoned>>

\* The number of events delivered so far.
Delivered == Len(hist)

\* Whether some handler is running.
Busy == \E t \in Threads : pc[t] # "idle"

\* An event arrives on thread t.
Deliver(t, e) ==
    /\ Delivered < MaxEvents
    /\ ev' = [ev EXCEPT ![t] = e]
    /\ hist' = Append(hist, e)
    /\ overlap' = (overlap \/ Busy)

\* The entries of trace: a Command::spawn() that returned worker pid, or
\* failed (pid = None), and a Child::kill() on worker pid.
SpawnEntry(pid) == [op |-> "spawn", pid |-> pid]
KillEntry(pid) == [op |-> "kill", pid |-> pid]

Init ==
    /\ BACKEND = None
    /\ lock = NoThread
    /\ pc = [t \in Threads |-> "idle"]
    /\ ev = [t \in Threads |-> "none"]
    /\ pending = [t \in Threads |-> 0]
    /\ child = [t \in Threads |-> None]
    /\ listeners = 0
    /\ proc = <<>>
    /\ trace = <<>>
    /\ hist = <<>>
    /\ overlap = FALSE
    /\ h0 = [t \in Threads |-> None]
    /\ t0 = [t \in Threads |-> 0]
    /\ seen = [t \in Threads |-> None]
    /\ did = [t \in Threads |-> 0]
    /\ res = [t \in Threads |-> "none"]
    /\ poisoned = FALSE

\* A call of spawn_backend or kill_backend begins on thread t.
Invoke(t) ==
    /\ h0' = [h0 EXCEPT ![t] = BACKEND]
    /\ t0' = [t0 EXCEPT ![t] = Len(trace)]
    /\ seen' = [seen EXCEPT ![t] = None]
    /\ did' = [did EXCEPT ![t] = 0]
    /\ res' = [res EXCEPT ![t] = "none"]

\* The handler on thread t has returned to the shell.
Forget(t) ==
    /\ h0' = [h0 EXCEPT ![t] = None]
    /\ t0' = [t0 EXCEPT ![t] = 0]
    /\ seen' = [seen EXCEPT ![t] = None]
    /\ did' = [did EXCEPT ![t] = 0]
    /\ res' = [res EXCEPT ![t] = "none"]

\* main.rs 33-34: the shell runs the setup closure, which calls spawn_backend.
setup(t) ==
    /\ pc[t] = "idle"
    /\ Deliver(t, "ready")
    /\ pc' = [pc EXCEPT ![t] = "spawn_lock"]
    /\ Invoke(t)
    /\ UNCHANGED <<BACKEND, lock, pending, child, listeners, proc, trace,
                   poisoned>>

\* spawn_backend with the check and the spawn outside the mutex: the call
\* does not wait for the guard.
spawn_backend_lock_unlocked(t) ==
    /\ pc[t] = "spawn_lock"
    /\ lock' = t
    /\ seen' = [seen EXCEPT ![t] = BACKEND]
    /\ pc' = [pc EXCEPT ![t] = "spawn_check"]
    /\ UNCHANGED <<BACKEND, ev, pending, child, listeners, proc, trace, hist,
                   overlap, h0, t0, did, res, poisoned>>

\* spawn_backend taking the guard out of a poisoned mutex
\* (unwrap_or_else(|e| e.into_inner())) instead of expect().
spawn_backend_lock_recover(t) ==
    /\ pc[t] = "spawn_lock"
    /\ lock = NoThread
    /\ lock' = t
    /\ seen' = [seen EXCEPT ![t] = BACKEND]
    /\ pc' = [pc EXCEPT ![t] = "spawn_check"]
    /\ UNCHANGED <<BACKEND, ev, pending, child, listeners, proc, trace, hist,
                   overlap, h0, t0, did, res, poisoned>>

\* main.rs 12: BACKEND.lock() blocks until the mutex is free, and gives the
\* guard when the mutex is not poisoned.
spawn_backend_lock(t) ==
    /\ pc[t] = "spawn_lock"
    /\ lock = NoThread
    /\ ~poisoned
    /\ lock' = t
    /\ seen' = [seen EXCEPT ![t] = BACKEND]
    /\ pc' = [pc EXCEPT ![t] = "spawn_check"]
    /\ UNCHANGED <<BACKEND, ev, pending, child, listeners, proc, trace, hist,
                   overlap, h0, t0, did, res, poisoned>>

\* spawn_backend with the check in a lock scope of its own: the guard is
\* dropped before the spawn.
spawn_backend_check_unlock(t) ==
    /\ pc[t] = "spawn_check"
    /\ lock' = NoThread
    /\ \/ /\ BACKEND # None
          /\ pc' = [pc EXCEPT ![t] = "setup_listen"]
       \/ /\ BACKEND = None
          /\ pc' = [pc EXCEPT ![t] = "spawn_exec"]
    /\ UNCHANGED <<BACKEND, ev, pending, child, listeners, proc, trace, hist,
                   overlap, h0, t0, seen, did, res, poisoned>>

\* spawn_backend without its `if guard.is_some() { return; }`.
spawn_backend_check_always(t) ==
    /\ pc[t] = "spawn_check"
    /\ pc' = [pc EXCEPT ![t] = "spawn_exec"]
    /\ UNCHANGED <<BACKEND, lock, ev, pending, child, listeners, proc, trace,
                   hist, overlap, h0, t0, seen, did, res, poisoned>>

\* main.rs 13-15: return (dropping the guard) when a child is tracked.
spawn_backend_check(t) ==
    /\ pc[t] = "spawn_check"
    /\ \/ /\ BACKEND # None
          /\ lock' = NoThread
          /\ pc' = [pc EXCEPT ![t] = "setup_listen"]
       \/ /\ BACKEND = None
          /\ lock' = lock
          /\ pc' = [pc EXCEPT ![t] = "spawn_exec"]
    /\ UNCHANGED <<BACKEND, ev, pending, child, listeners, proc, trace, hist,
                   overlap, h0, t0, seen, did, res, poisoned>>

\* main.rs 16-21: Command::spawn() creates the worker or fails; .ok() turns
\* the failure into None.
spawn_backend_spawn(t) ==
    /\ pc[t] = "spawn_exec"
    /\ \/ /\ proc' = Append(proc, "running")
          /\ child' = [child EXCEPT ![t] = Len(proc) + 1]
          /\ trace' = Append(trace, SpawnEntry(Len(proc) + 1))
       \/ /\ proc' = proc
          /\ child' = [child EXCEPT ![t] = None]
          /\ trace' = Append(trace, SpawnEntry(None))
    /\ did' = [did EXCEPT ![t] = Len(trace) + 1]
    /\ pc' = [pc EXCEPT ![t] = "spawn_store"]
    /\ UNCHANGED <<BACKEND, lock, ev, pending, listeners, hist, overlap, h0, t0,
                   seen, res, poisoned>>

\* spawn_backend that tries the spawn a second time when the first failed.
spawn_backend_store_retry(t) ==
    /\ pc[t] = "spawn_store"
    /\ \/ /\ child[t] = None /\ Len(trace) = t0[t] + 1
          /\ pc' = [pc EXCEPT ![t] = "spawn_exec"]
          /\ UNCHANGED <<BACKEND, child, lock>>
       \/ /\ ~(child[t] = None /\ Len(trace) = t0[t] + 1)
          /\ BACKEND' = child[t]
          /\ child' = [child EXCEPT ![t] = None]
          /\ lock' = NoThread
          /\ pc' = [pc EXCEPT ![t] = "setup_listen"]
    /\ UNCHANGED <<ev, pending, listeners, proc, trace, hist, overlap, h0, t0,
                   seen, did, res, poisoned>>

\* spawn_backend that returns early on a failed spawn and leaks the guard
\* (the mutex stays locked).
spawn_backend_store_stuck(t) ==
    /\ pc[t] = "spawn_store"
    /\ BACKEND' = child[t]
    /\ child' = [child EXCEPT ![t] = None]
    /\ lock' = IF child[t] = None THEN lock ELSE NoThread
    /\ pc' = [pc EXCEPT ![t] = "setup_listen"]
    /\ UNCHANGED <<ev, pending, listeners, proc, trace, hist, overlap, h0, t0,
                   seen, did, res, poisoned>>

\* main.rs 22-23: *guard = child; the guard is dropped as the function returns.
spawn_backend_store(t) ==
    /\ pc[t] = "spawn_store"
    /\ BACKEND' = child[t]
    /\ child' = [child EXCEPT ![t] = None]
    /\ lock' = NoThread
    /\ pc' = [pc EXCEPT ![t] = "setup_listen"]
    /\ UNCHANGED <<ev, pending, listeners, proc, trace, hist, overlap, h0, t0,
                   seen, did, res, poisoned>>

\* setup that registers its close-requested listener twice.
setup_listen_twice(t) ==
    /\ pc[t] = "setup_listen"
    /\ listeners' = listeners + 2
    /\ ev' = [ev EXCEPT ![t] = "none"]
    /\ pc' = [pc EXCEPT ![t] = "idle"]
    /\ Forget(t)
    /\ UNCHANGED <<BACKEND, lock, pending, child, proc, trace, hist, overlap,
                   poisoned>>

\* main.rs 35-39: setup registers the close-requested listener and returns.
setup_listen(t) ==
    /\ pc[t] = "setup_listen"
    /\ listeners' = listeners + 1
    /\ ev' = [ev EXCEPT ![t] = "none"]
    /\ pc' = [pc EXCEPT ![t] = "idle"]
    /\ Forget(t)
    /\ UNCHANGED <<BACKEND, lock, pending, child, proc, trace, hist, overlap,
                   poisoned>>

\* the close-requested handler registered on the builder, beside
\* on_window_event, instead of inside setup after spawn_backend.
on_close_requested_unregistered(t) ==
    /\ pc[t] = "idle"
    /\ Deliver(t, "close")
    /\ pending' = [pending EXCEPT ![t] = 1]
    /\ pc' = [pc EXCEPT ![t] = "kill_lock"]
    /\ Invoke(t)
    /\ UNCHANGED <<BACKEND, lock, child, listeners, proc, trace, poisoned>>

\* main.rs 36-38: a close-requested event runs every registered listener,
\* each of which calls kill_backend.
on_close_requested(t) ==
    /\ pc[t] = "idle"
    /\ listeners > 0
    /\ Deliver(t, "close")
    /\ pending' = [pending EXCEPT ![t] = listeners]
    /\ pc' = [pc EXCEPT ![t] = "kill_lock"]
    /\ Invoke(t)
    /\ UNCHANGED <<BACKEND, lock, child, listeners, proc, trace, poisoned>>

\* main.rs 41-45: a Destroyed window event calls kill_backend.
on_window_event(t) ==
    /\ pc[t] = "idle"
    /\ Deliver(t, "destroyed")
    /\ pending' = [pending EXCEPT ![t] = 1]
    /\ pc' = [pc EXCEPT ![t] = "kill_lock"]
    /\ Invoke(t)
    /\ UNCHANGED <<BACKEND, lock, child, listeners, proc, trace, poisoned>>

\* kill_backend reading the handle without waiting for the mutex.
kill_backend_lock_unlocked(t) ==
    /\ pc[t] = "kill_lock"
    /\ lock' = t
    /\ seen' = [seen EXCEPT ![t] = BACKEND]
    /\ pc' = [pc EXCEPT ![t] = "kill_check"]
    /\ UNCHANGED <<BACKEND, ev, pending, child, listeners, proc, trace, hist,
                   overlap, h0, t0, did, res, poisoned>>

\* main.rs 26: BACKEND.lock(); the guard lives to the end of the `if let`.
kill_backend_lock(t) ==
    /\ pc[t] = "kill_lock"
    /\ lock = NoThread
    /\ ~poisoned
    /\ lock' = t
    /\ seen' = [seen EXCEPT ![t] = BACKEND]
    /\ pc' = [pc EXCEPT ![t] = "kill_check"]
    /\ UNCHANGED <<BACKEND, ev, pending, child, listeners, proc, trace, hist,
                   overlap, h0, t0, did, res, poisoned>>

\* kill_backend with its test inverted: it signals when no child is tracked.
kill_backend_check_inverted(t) ==
    /\ pc[t] = "kill_check"
    /\ \/ /\ BACKEND = None
          /\ lock' = lock
          /\ pc' = [pc EXCEPT ![t] = "kill_signal"]
       \/ /\ BACKEND # None
          /\ lock' = NoThread
          /\ pc' = [pc EXCEPT ![t] = "kill_ret"]
    /\ UNCHANGED <<BACKEND, ev, pending, child, listeners, proc, trace, hist,
                   overlap, h0, t0, seen, did, res, poisoned>>

\* main.rs 26: `if let Some(child) = ... .as_mut()`; with None the guard is
\* dropped and kill_backend returns.
kill_backend_check(t) ==
    /\ pc[t] = "kill_check"
    /\ \/ /\ BACKEND # None
          /\ lock' = lock
          /\ pc' = [pc EXCEPT ![t] = "kill_signal"]
       \/ /\ BACKEND = None
          /\ lock' = NoThread
          /\ pc' = [pc EXCEPT ![t] = "kill_ret"]
    /\ UNCHANGED <<BACKEND, ev, pending, child, listeners, proc, trace, hist,
                   overlap, h0, t0, seen, did, res, poisoned>>

\* kill_backend with child.kill().expect(...): a refused signal panics while
\* the guard is held, which poisons the mutex.
kill_backend_kill_expect(t) ==
    /\ pc[t] = "kill_signal"
    /\ trace' = Append(trace, KillEntry(BACKEND))
    /\ did' = [did EXCEPT ![t] = Len(trace) + 1]
    /\ \/ /\ proc' = [proc EXCEPT ![BACKEND] = "killed"]
          /\ res' = [res EXCEPT ![t] = "ok"]
          /\ pc' = [pc EXCEPT ![t] = "kill_ret"]
          /\ poisoned' = poisoned
       \/ /\ proc' = proc
          /\ res' = [res EXCEPT ![t] = "err"]
          /\ pc' = [pc EXCEPT ![t] = "panicked"]
          /\ poisoned' = TRUE
    /\ lock' = NoThread
    /\ UNCHANGED <<BACKEND, ev, pending, child, listeners, hist, overlap, h0, t0,
                   seen>>

\* kill_backend that signals only a worker it has not killed before.
kill_backend_kill_once(t) ==
    /\ pc[t] = "kill_signal"
    /\ \/ /\ proc[BACKEND] = "killed"
          /\ UNCHANGED <<trace, did, proc, res>>
       \/ /\ proc[BACKEND] # "killed"
          /\ trace' = Append(trace, KillEntry(BACKEND))
          /\ did' = [did EXCEPT ![t] = Len(trace) + 1]
          /\ \/ /\ proc' = [proc EXCEPT ![BACKEND] = "killed"]
                /\ res' = [res EXCEPT ![t] = "ok"]
             \/ /\ proc' = proc
                /\ res' = [res EXCEPT ![t] = "err"]
    /\ lock' = NoThread
    /\ pc' = [pc EXCEPT ![t] = "kill_ret"]
    /\ UNCHANGED <<BACKEND, ev, pending, child, listeners, hist, overlap, h0, t0,
                   seen, poisoned>>

\* kill_backend that finds the child and returns without calling kill().
kill_backend_kill_forgotten(t) ==
    /\ pc[t] = "kill_signal"
    /\ lock' = NoThread
    /\ pc' = [pc EXCEPT ![t] = "kill_ret"]
    /\ UNCHANGED <<BACKEND, ev, pending, child, listeners, proc, trace, hist,
                   overlap, h0, t0, seen, did, res, poisoned>>

\* kill_backend written with take() in place of as_mut(): the handle is
\* cleared as the worker is signalled.
kill_backend_kill_take(t) ==
    /\ pc[t] = "kill_signal"
    /\ trace' = Append(trace, KillEntry(BACKEND))
    /\ did' = [did EXCEPT ![t] = Len(trace) + 1]
    /\ \/ /\ proc' = [proc EXCEPT ![BACKEND] = "killed"]
          /\ res' = [res EXCEPT ![t] = "ok"]
       \/ /\ proc' = proc
          /\ res' = [res EXCEPT ![t] = "err"]
    /\ BACKEND' = None
    /\ lock' = NoThread
    /\ pc' = [pc EXCEPT ![t] = "kill_ret"]
    /\ UNCHANGED <<ev, pending, child, listeners, hist, overlap, h0, t0, seen,
                   poisoned>>

\* main.rs 27-29: `let _ = child.kill();` signals the worker; the result is
\* ignored; the guard is dropped and kill_backend returns.  The child is never
\* waited for, so kill() always reaches the OS; the worker is then killed
\* (Ok), or the OS refuses (Err: the worker has exited already, the signal is
\* denied).
kill_backend_kill(t) ==
    /\ pc[t] = "kill_signal"
    /\ trace' = Append(trace, KillEntry(BACKEND))
    /\ did' = [did EXCEPT ![t] = Len(trace) + 1]
    /\ \/ /\ proc' = [proc EXCEPT ![BACKEND] = "killed"]
          /\ res' = [res EXCEPT ![t] = "ok"]
       \/ /\ proc' = proc
          /\ res' = [res EXCEPT ![t] = "err"]
    /\ lock' = NoThread
    /\ pc' = [pc EXCEPT ![t] = "kill_ret"]
    /\ UNCHANGED <<BACKEND, ev, pending, child, listeners, hist, overlap, h0, t0,
                   seen, poisoned>>

\* main.rs 38, 44-45: the closure that called kill_backend returns; a
\* close-requested event goes on to its next listener.
handler_return(t) ==
    /\ pc[t] = "kill_ret"
    /\ \/ /\ pending[t] > 1
          /\ pending' = [pending EXCEPT ![t] = pending[t] - 1]
          /\ pc' = [pc EXCEPT ![t] = "kill_lock"]
          /\ Invoke(t)
          /\ ev' = ev
       \/ /\ pending[t] <= 1
          /\ pending' = [pending EXCEPT ![t] = 0]
          /\ pc' = [pc EXCEPT ![t] = "idle"]
          /\ ev' = [ev EXCEPT ![t] = "none"]
          /\ Forget(t)
    /\ UNCHANGED <<BACKEND, lock, child, listeners, proc, trace, hist, overlap,
                   poisoned>>

\* main.rs 12: on a poisoned mutex lock() returns Err and
\* expect("lock backend process") panics; the guard inside the error is
\* dropped, and the handler never gets to read the handle.
spawn_backend_lock_poisoned(t) ==
    /\ pc[t] = "spawn_lock"
    /\ lock = NoThread
    /\ poisoned
    /\ pc' = [pc EXCEPT ![t] = "panicked"]
    /\ UNCHANGED <<BACKEND, lock, ev, pending, child, listeners, proc, trace,
                   hist, overlap, h0, t0, seen, did, res, poisoned>>

\* main.rs 26: the same in kill_backend.
kill_backend_lock_poisoned(t) ==
    /\ pc[t] = "kill_lock"
    /\ lock = NoThread
    /\ poisoned
    /\ pc' = [pc EXCEPT ![t] = "panicked"]
    /\ UNCHANGED <<BACKEND, lock, ev, pending, child, listeners, proc, trace,
                   hist, overlap, h0, t0, seen, did, res, poisoned>>

\* main.rs 9: std::sync::Mutex becomes poisoned when a thread panics while
\* it holds the guard.  Nothing in spawn_backend or kill_backend does; this
\* is some other holder of BACKEND, which has come and gone.
holder_panicked ==
    /\ ~poisoned
    /\ lock = NoThread
    /\ poisoned' = TRUE
    /\ UNCHANGED <<BACKEND, lock, pc, ev, pending, child, listeners, proc, trace,
                   hist, overlap, h0, t0, seen, did, res>>

\* The steps thread t takes by itself once the shell has called its handler.
Progress(t) ==
    \/ spawn_backend_lock(t)
    \/ spawn_backend_check(t)
    \/ spawn_backend_spawn(t)
    \/ spawn_backend_store(t)
    \/ setup_listen(t)
    \/ kill_backend_lock(t)
    \/ kill_backend_check(t)
    \/ kill_backend_kill(t)
    \/ handler_return(t)

Next ==
    \E t \in Threads :
          \/ setup(t)
          \/ spawn_backend_lock(t)
          \/ spawn_backend_check(t)
          \/ spawn_backend_spawn(t)
          \/ spawn_backend_store(t)
          \/ setup_listen(t)
          \/ on_close_requested(t)
          \/ on_window_event(t)
          \/ kill_backend_lock(t)
          \/ kill_backend_check(t)
          \/ kill_backend_kill(t)
          \/ handler_return(t)

Spec == Init /\ [][Next]_vars

----------------------------------------------------------------------------
\* What the claims speak of, read off trace and the threads' positions.

\* The program with a mutex that another holder may poison.
NextPoisoned ==
    \/ Next
    \/ \E t \in Threads :
          \/ spawn_backend_lock_poisoned(t)
          \/ kill_backend_lock_poisoned(t)
    \/ holder_panicked

SpecPoisoned == Init /\ [][NextPoisoned]_vars

\* The program with every thread that can take a step eventually scheduled.
SpecFair == Spec /\ \A t \in Threads : WF_vars(Progress(t))

\* The workers created so far.
Created == Len(proc)

\* The places in trace of the Command::spawn() calls, of those that failed,
\* of those that created a worker, and of the Child::kill() calls.
SpawnCalls == {i \in 1..Len(trace) : trace[i].op = "spawn"}
Failed == {i \in SpawnCalls : trace[i].pid = None}
Succeeded == {i \in SpawnCalls : trace[i].pid # None}
KillCalls == {i \in 1..Len(trace) : trace[i].op = "kill"}

\* Thread t's call of spawn_backend, or of kill_backend, has returned and its
\* caller has not yet gone on.
SpawnReturned(t) == pc[t] = "setup_listen"
KillReturned(t) == pc[t] = "kill_ret"

\* Thread t is inside spawn_backend's, or kill_backend's, critical section.
InSpawnSection(t) == pc[t] \in {"spawn_check", "spawn_exec", "spawn_store"}
InKillSection(t) == pc[t] \in {"kill_check", "kill_signal"}

\* The ready events delivered so far: the invocations of spawn_backend.
ReadyCount == Cardinality({i \in 1..Len(hist) : hist[i] = "ready"})

\* Thread t is inside kill_backend or has just returned from it.
InKill(t) == pc[t] \in {"kill_lock", "kill_check", "kill_signal", "kill_ret"}

\* Thread t is inside spawn_backend, or kill_backend, and has not returned.
SpawnRunning(t) == pc[t] = "spawn_lock" \/ InSpawnSection(t)
KillRunning(t) == pc[t] = "kill_lock" \/ InKillSection(t)

\* A step of the program itself, as opposed to holder_panicked.
ProgramStep ==
    \/ Next
    \/ \E t \in Threads :
          \/ spawn_backend_lock_poisoned(t)
          \/ kill_backend_lock_poisoned(t)

TypeOK ==
    /\ BACKEND \in 0..Len(proc)
    /\ lock \in Threads \cup {NoThread}
    /\ listeners \in Nat
    /\ \A t \in Threads : child[t] \in 0..Len(proc)

----------------------------------------------------------------------------
\* C1: two calls of ensure_started (spawn_backend) that race, both invoked
\* while the handle is absent, with process creation succeeding: when both
\* have returned exactly one worker has been created by exactly one spawn
\* call, the handle tracks it, at most one of the two calls made the spawn,
\* and a call that found the handle present under the lock made none.
C1_RacingStartsSpawnOnce ==
    \A t1, t2 \in Threads :
        ( /\ t1 # t2
          /\ SpawnReturned(t1) /\ SpawnReturned(t2)
          /\ h0[t1] = None /\ h0[t2] = None
          /\ Failed = {} )
        => /\ Created = 1
           /\ Cardinality(SpawnCalls) = 1
           /\ BACKEND = 1
           /\ ~(did[t1] # 0 /\ did[t2] # 0)
           /\ \A t \in {t1, t2} : (seen[t] # None) <=> (did[t] = 0)

C1_Witness ==
    \E t1, t2 \in Threads :
        /\ t1 # t2
        /\ SpawnReturned(t1) /\ SpawnReturned(t2)
        /\ h0[t1] = None /\ h0[t2] = None
        /\ Failed = {}
        /\ did[t1] # 0 /\ did[t2] = 0

\* C2: in every reachable state at most one worker has ever been created;
\* the one created is tracked (in the handle, or in the local of the call
\* that holds the lock and is about to store it) exactly when one spawn has
\* succeeded; with the lock free the handle is present iff exactly one spawn
\* has succeeded.
C2_AtMostOneWorker ==
    /\ Created <= 1
    /\ Cardinality(Succeeded) = Created
    /\ (BACKEND # None \/ \E t \in Threads : child[t] # None) <=> (Created = 1)
    /\ \A t \in Threads : child[t] # None => (lock = t /\ pc[t] = "spawn_store")
    /\ lock = NoThread => ((BACKEND # None) <=> (Cardinality(Succeeded) = 1))

\* an ensure_started has returned after a terminate signalled the worker
C2_Witness ==
    /\ BACKEND # None
    /\ \E t \in Threads :
          /\ SpawnReturned(t)
          /\ \E i \in KillCalls : i <= t0[t]

\* C3: an ensure_started invoked when an earlier call has populated the
\* handle returns with no spawn attempt made (by it or by anyone since it
\* began) and the handle unchanged: one worker has been created in all.
C3_SecondStartIsNoOp ==
    \A t \in Threads :
        (SpawnReturned(t) /\ h0[t] # None)
        => /\ did[t] = 0
           /\ BACKEND = h0[t]
           /\ \A i \in SpawnCalls : i <= t0[t]
           /\ Created = 1

C3_Witness ==
    \E t \in Threads : SpawnReturned(t) /\ h0[t] # None /\ KillCalls = {}

\* C4 as claimed: of two terminate (kill_backend) calls in sequence after a
\* successful ensure_started, the second, invoked when the first has
\* signalled, sends no signal.
C4_SecondTerminateSendsNothing ==
    \A t \in Threads :
        ( /\ KillReturned(t)
          /\ h0[t] # None
          /\ \E i \in KillCalls : i <= t0[t] )
        => did[t] = 0

\* C4, amended: such a second terminate returns with the lock released and
\* the handle unchanged, and it has signalled the same worker again: every
\* termination signal so far went to the one tracked worker.
C4_SecondTerminateSignalsAgain ==
    \A t \in Threads :
        ( /\ KillReturned(t)
          /\ h0[t] # None
          /\ \E i \in KillCalls : i <= t0[t] )
        => /\ lock # t
           /\ BACKEND = h0[t]
           /\ did[t] > t0[t]
           /\ Cardinality(KillCalls) >= 2
           /\ \A i \in KillCalls : trace[i] = KillEntry(h0[t])

C4_Witness ==
    \E t \in Threads :
        /\ KillReturned(t)
        /\ h0[t] # None
        /\ \E i \in KillCalls : i <= t0[t]
        /\ ~overlap

\* C5: a terminate that returns while no worker has ever been created (no
\* ensure_started yet, or only failed spawns) has sent no signal, has
\* released the lock, and the handle is still absent.
C5_TerminateAbsentIsNoOp ==
    \A t \in Threads :
        (KillReturned(t) /\ Created = 0)
        => /\ did[t] = 0
           /\ KillCalls = {}
           /\ lock # t
           /\ seen[t] = None
           /\ BACKEND = None

C5_Witness ==
    \E t \in Threads : KillReturned(t) /\ Created = 0 /\ Failed # {}

\* C6: a terminate invoked when ensure_started has returned with the handle
\* populated has, on its return, issued a termination signal to that worker.
C6_TerminateSignalsStartedWorker ==
    \A t \in Threads :
        (KillReturned(t) /\ h0[t] # None)
        => /\ did[t] > t0[t]
           /\ did[t] \in KillCalls
           /\ trace[did[t]].pid = h0[t]

C6_Witness ==
    \E t \in Threads : KillReturned(t) /\ h0[t] # None /\ t0[t] = 1

\* The run so far is the scenario of C7 or a beginning of it: ready, then
\* close-requested, then window-destroyed, each arriving when the handler
\* of the one before has returned, and no spawn failing.
Scenario == <<"ready", "close", "destroyed">>
InScenario ==
    /\ ~overlap
    /\ Len(hist) <= Len(Scenario)
    /\ hist = SubSeq(Scenario, 1, Len(hist))
    /\ Failed = {}

\* C7: throughout that scenario the OS calls made are one spawn followed by
\* at most two kills, all of the worker that spawn created (so no spawn
\* follows a kill); when the three handlers have returned they are the
\* spawn and two kills.
C7_ReadyCloseDestroyed ==
    InScenario
    => /\ Len(trace) <= 3
       /\ \A i \in 1..Len(trace) :
             trace[i] = IF i = 1 THEN SpawnEntry(1) ELSE KillEntry(1)
       /\ Len(hist) >= 2 => trace # <<>>
       /\ (hist = Scenario /\ ~Busy)
             => (trace = <<SpawnEntry(1), KillEntry(1), KillEntry(1)>> /\ BACKEND = 1)

C7_Witness == InScenario /\ hist = Scenario /\ ~Busy

\* C8: an ensure_started whose spawn failed returns with the lock released
\* and nothing stored: the handle is empty unless a later spawn succeeded.
\* Every ensure_started that found the handle empty under the lock made a
\* spawn attempt (so a call after a failure tries again), and one that found
\* it present made none.
C8_SpawnFailureSwallowed ==
    \A t \in Threads :
        /\ (SpawnReturned(t) /\ did[t] \in Failed)
           => /\ lock # t
              /\ child[t] = None
              /\ BACKEND = None \/ \E j \in Succeeded : j > did[t]
        /\ SpawnReturned(t) => ((seen[t] = None) <=> (did[t] \in SpawnCalls))
        /\ \A i \in SpawnCalls : \A j \in Succeeded : i <= j

\* an ensure_started invoked after a failed one has tried again and failed too
C8_Witness ==
    \E t \in Threads :
        /\ SpawnReturned(t)
        /\ did[t] \in Failed
        /\ \E i \in Failed : i <= t0[t]
        /\ lock = NoThread

\* C9: no step takes the handle from present to absent or to another
\* worker, and while the handle is present no worker is created: terminate
\* leaves it as it is and a later ensure_started spawns no replacement.
C9_HandleNeverCleared ==
    [][BACKEND # None => (BACKEND' = BACKEND /\ Len(proc') = Len(proc))]_vars

\* an ensure_started has returned after a terminate signalled the worker,
\* and the handle still names that worker
C9_Witness ==
    \E t \in Threads :
        /\ SpawnReturned(t)
        /\ h0[t] # None
        /\ BACKEND = h0[t]
        /\ \E i \in KillCalls : i <= t0[t] /\ trace[i].pid = BACKEND

\* C10: a terminate holds the lock alone, with no ensure_started between its
\* check and its store, and reads the handle as it stands; on its return it
\* has signalled iff the handle was populated when it took the lock, and then
\* the worker it found; with the handle absent at that moment it did nothing.
C10_TerminateSeesHandleUnderLock ==
    \A t \in Threads :
        /\ InKillSection(t)
           => /\ lock = t
              /\ seen[t] = BACKEND
              /\ \A u \in Threads \ {t} : ~InSpawnSection(u) /\ ~InKillSection(u)
              /\ \A u \in Threads : child[u] = None
              /\ (BACKEND # None) <=> (Succeeded # {})
        /\ pc[t] = "kill_signal" => seen[t] # None
        /\ KillReturned(t)
           => /\ (did[t] # 0) <=> (seen[t] # None)
              /\ did[t] # 0 => (did[t] \in KillCalls /\ trace[did[t]].pid = seen[t])

\* a terminate invoked before a racing ensure_started stored the handle took
\* the lock after it and signalled the worker
C10_Witness ==
    \E t \in Threads :
        /\ KillReturned(t)
        /\ h0[t] = None
        /\ seen[t] # None
        /\ did[t] # 0

\* C11: with one ensure_started and one terminate, a terminate that took the
\* lock while the handle was absent has done nothing, and when both have
\* returned after a successful spawn the worker is tracked, running and was
\* never signalled: it is leaked.  Such a leak (both handlers returned, a
\* worker created, no signal sent) arises only when the terminate raced with
\* or ran ahead of the ensure_started.
C11_TerminateAheadLeaksWorker ==
    /\ \A t, u \in Threads :
          ( /\ Len(hist) = 2 /\ ReadyCount = 1
            /\ KillReturned(t) /\ seen[t] = None
            /\ SpawnReturned(u) /\ did[u] \in Succeeded )
          => /\ did[t] = 0
             /\ KillCalls = {}
             /\ BACKEND = trace[did[u]].pid
             /\ proc[BACKEND] = "running"
    /\ (Len(hist) = 2 /\ ReadyCount = 1 /\ ~Busy /\ Succeeded # {}
          /\ KillCalls = {})
          => /\ BACKEND = 1 /\ proc[1] = "running"
             /\ overlap \/ hist[1] = "destroyed"

\* the two ran concurrently, the terminate was a no-op, the worker was then
\* created, and both have returned
C11_Witness ==
    \E t, u \in Threads :
        /\ Len(hist) = 2 /\ overlap
        /\ KillReturned(t) /\ seen[t] = None /\ did[t] = 0
        /\ SpawnReturned(u) /\ did[u] \in Succeeded
        /\ KillCalls = {}
        /\ proc[BACKEND] = "running"

\* C12: the lock is held exactly by the one thread inside a critical
\* section; ensure_started holds it from its check through the spawn to the
\* store, and in that span the handle is what it read at the check (absent,
\* once it goes on to spawn): nobody else read or changed it.
C12_LockSerializesHandle ==
    /\ \A t \in Threads : (InSpawnSection(t) \/ InKillSection(t)) <=> (lock = t)
    /\ \A t, u \in Threads :
          (t # u /\ (InSpawnSection(t) \/ InKillSection(t)))
          => ~(InSpawnSection(u) \/ InKillSection(u))
    /\ \A t \in Threads :
          InSpawnSection(t)
          => /\ BACKEND = seen[t]
             /\ pc[t] \in {"spawn_exec", "spawn_store"} => BACKEND = None
             /\ \A u \in Threads \ {t} : seen[u] # None => seen[u] = BACKEND

\* an ensure_started is about to store its child while a terminate and
\* nothing else waits for the lock
C12_Witness ==
    \E t, u \in Threads :
        /\ pc[t] = "spawn_store" /\ child[t] # None
        /\ pc[u] = "kill_lock"

\* C16: the spawn attempts never outnumber the ensure_started invocations
\* (the ready events); a terminate makes none; when every handler has
\* returned and no worker was ever created, each ensure_started made exactly
\* one attempt: a failed spawn is not tried again by the manager itself.
C16_NoRetry ==
    /\ Cardinality(SpawnCalls) <= ReadyCount
    /\ \A t \in Threads : InKill(t) => did[t] \notin SpawnCalls
    /\ \A t \in Threads : did[t] \in SpawnCalls => did[t] = Len(trace) \/ ~InSpawnSection(t)
    /\ (~Busy /\ Created = 0) => Cardinality(SpawnCalls) = ReadyCount

\* a spawn failed, its ensure_started returned, a terminate ran after it, and
\* there has been the one attempt only
C16_Witness ==
    /\ ~Busy
    /\ hist = <<"ready", "destroyed">>
    /\ trace = <<SpawnEntry(None)>>

\* C17: a close-requested handler runs only when a listener is registered,
\* and a listener is registered only when the spawn_backend call of its
\* setup has returned, having spawned, failed to, or found the child: the
\* first ready precedes every close-requested, and a terminate that runs
\* before any spawn attempt comes from a destroyed window.
C17_CloseListenerAfterSpawn ==
    /\ listeners > 0 => (SpawnCalls # {} /\ (BACKEND # None \/ Failed # {}))
    /\ listeners <= ReadyCount
    /\ \A t \in Threads : ev[t] = "close" => listeners > 0
    /\ \A j \in 1..Len(hist) :
          hist[j] = "close" => \E i \in 1..(j - 1) : hist[i] = "ready"
    /\ \A t \in Threads : (InKill(t) /\ SpawnCalls = {}) => ev[t] = "destroyed"

\* a close-requested handler is inside kill_backend
C17_Witness ==
    \E t \in Threads : ev[t] = "close" /\ pc[t] = "kill_check"

\* C13: a terminate whose kill() was refused has returned all the same, with
\* the lock released and not poisoned and the handle still naming the worker
\* it signalled.
C13_KillFailureIgnored ==
    \A t \in Threads :
        res[t] = "err"
        => /\ KillReturned(t)
           /\ lock # t
           /\ ~poisoned
           /\ did[t] \in KillCalls
           /\ BACKEND # None
           /\ BACKEND = seen[t]
           /\ trace[did[t]].pid = BACKEND

\* the worker was killed by an earlier terminate; this one's signal was
\* refused, and the lock is free again
C13_Witness ==
    \E t \in Threads :
        /\ res[t] = "err"
        /\ KillReturned(t)
        /\ proc[BACKEND] = "killed"
        /\ lock = NoThread

\* C14: no step of ensure_started or terminate poisons the lock; and with
\* the lock poisoned no step changes the handle, spawns or signals, and a
\* call waiting for the lock can only panic, having read and done nothing.
C14_PoisonedLockPanics ==
    [][ /\ ProgramStep => poisoned' = poisoned
        /\ poisoned
           => /\ BACKEND' = BACKEND
              /\ trace' = trace
              /\ proc' = proc
              /\ lock = NoThread /\ lock' = NoThread
              /\ \A t \in Threads :
                    (pc[t] \in {"spawn_lock", "kill_lock"} /\ pc'[t] # pc[t])
                    => /\ pc'[t] = "panicked"
                       /\ seen'[t] = None
                       /\ did'[t] = 0 ]_vars

\* with a worker tracked and the lock poisoned, a ready handler and a
\* destroyed handler have both panicked
C14_Witness ==
    /\ poisoned
    /\ BACKEND # None
    /\ \E t, u \in Threads :
          /\ pc[t] = "panicked" /\ ev[t] = "ready"
          /\ pc[u] = "panicked" /\ ev[u] = "destroyed"

\* No call of spawn_backend or kill_backend is under way and the lock is free.
Quiet ==
    /\ lock = NoThread
    /\ \A t \in Threads : ~SpawnRunning(t) /\ ~KillRunning(t)

\* C15: with every runnable thread eventually scheduled, again and again no
\* call of ensure_started or terminate is under way and the lock is free:
\* every call that was invoked has returned, whatever path it took, and
\* every lock taken has been released; no call waits for ever.
C15_EveryCallReturns == []<>Quiet

\* a terminate and an ensure_started whose spawn failed ran at once and both
\* have returned, the lock free
C15_Witness ==
    \E t, u \in Threads :
        /\ overlap
        /\ SpawnReturned(t) /\ did[t] \in Failed
        /\ KillReturned(u)
        /\ lock = NoThread

====
